---- MODULE Spec2Model ----
(***************************************************************************)
(* VoiceClock: the announcement engine (src/src/scheduler.py), the         *)
(* settings store (src/src/config.py), the audio player (src/src/player.py)*)
(* and the handlers of the tray and the settings dialog that drive them.   *)
(***************************************************************************)
EXTENDS Integers, Sequences, FiniteSets, TLC

(***************************************************************************)
(* Bounds of the model.                                                    *)
(***************************************************************************)
\* number of clock changes followed in one behaviour of Spec
MaxElapsed == 1
\* number of clock changes followed in one behaviour of SpecScenario
MaxScenarioElapsed == 2
\* number of check_and_announce calls logged in one behaviour of SpecScenario
MaxTicks == 4
\* number of operations on the settings store in one behaviour of SpecConfig
MaxConfigOps == 3
\* number of operations in one behaviour of SpecFile
MaxFileOps == 3
MaxLog == 2
MaxLiveOps == 3
MaxLiveElapsed == 2

(***************************************************************************)
(* Values of the settings (config.py, settings_window.py).                 *)
(***************************************************************************)
LANGUAGES == {"en", "bn"}
INTERVALS == {15, 30, 60}
DEFAULT_SETTINGS == [language |-> "en", interval |-> 60, muted |-> FALSE]
\* insertion order of the keys of the dict: DEFAULT_SETTINGS comes first in
\* DEFAULT_SETTINGS.copy() and in {**DEFAULT_SETTINGS, **loaded}
KeyOrder == <<"language", "interval", "muted">>
ValidSettings == [language : LANGUAGES, interval : INTERVALS, muted : BOOLEAN]

\* a key that the application does not know, and the strings that a file
\* written by hand gives to it and to the interval
ExtraKeys == <<"theme">>
HandStrings == {"dark", "fast"}

\* type(value).__name__ of a value of the settings: bool, str or int
BoolTexts == {ToString(b) : b \in BOOLEAN}
StrTexts == {ToString(s) : s \in LANGUAGES \cup HandStrings}
type_name(value) ==
    IF ToString(value) \in BoolTexts THEN "bool"
    ELSE IF ToString(value) \in StrTexts THEN "str" ELSE "int"

(***************************************************************************)
(* The settings file.  Its text is a sequence of members, one per key, the *)
(* value written the way json.dump writes it: a string between quotes, an  *)
(* integer as its decimal digits, a boolean as the literal true or false.  *)
(* A text that json.load rejects is a single member of type "garbage".     *)
(***************************************************************************)
DigitChars == <<"0", "1", "2", "3", "4", "5", "6", "7", "8", "9">>

\* the digits written the last one first
RECURSIVE IntText_reversed(_)
IntText_reversed(n) == IF n < 10 THEN <<DigitChars[n + 1]>>
                       ELSE <<DigitChars[(n % 10) + 1]>> \o IntText_reversed(n \div 10)

\* str(n): the decimal digits of a natural number
RECURSIVE IntText(_)
IntText(n) == IF n < 10 THEN <<DigitChars[n + 1]>>
              ELSE Append(IntText(n \div 10), DigitChars[(n % 10) + 1])

CharDigit(c) == CHOOSE d \in 0..9 : DigitChars[d + 1] = c

\* int(t): the number that a sequence of decimal digits writes
RECURSIVE TextInt(_)
TextInt(t) == IF Len(t) = 0 THEN 0
              ELSE 10 * TextInt(SubSeq(t, 1, Len(t) - 1)) + CharDigit(t[Len(t)])

\* the text of an integer: a minus sign before the digits of a negative one
NumberText(n) == IF n < 0 THEN <<"-">> \o IntText(0 - n) ELSE IntText(n)

\* the integer that such a text writes
TextNumber(t) == IF t[1] = "-" THEN 0 - TextInt(Tail(t)) ELSE TextInt(t)

\* the json encoder writes a value after its type
EncodeValue(key, value) ==
    CASE type_name(value) = "str"  -> [k |-> key, t |-> "string", v |-> <<value>>]
      [] type_name(value) = "int"  -> [k |-> key, t |-> "number", v |-> NumberText(value)]
      [] type_name(value) = "bool" -> [k |-> key, t |-> "literal",
                                       v |-> <<IF value THEN "true" ELSE "false">>]

DecodeValue(member) ==
    CASE member.t = "string"  -> member.v[1]
      [] member.t = "number"  -> TextNumber(member.v)
      [] member.t = "literal" -> (member.v[1] = "true")

\* the keys of a dict in their insertion order: the known keys, then the
\* keys that only the file had
DictOrder(s) ==
    LET Held(key) == key \in DOMAIN s IN SelectSeq(KeyOrder \o ExtraKeys, Held)

\* json.dump(self._settings, f, indent=2, ensure_ascii=False)
json_dump(s) ==
    [i \in 1..Len(DictOrder(s)) |-> EncodeValue(DictOrder(s)[i], s[DictOrder(s)[i]])]

GarbageText == <<[k |-> "", t |-> "garbage", v |-> <<>>]>>

\* a text that is JSON but whose value is an array, not an object
ArrayText == <<[k |-> "", t |-> "array", v |-> <<>>]>>

\* json.load raises JSONDecodeError on a text that is not JSON
Decodable(text) == \A i \in 1..Len(text) : text[i].t # "garbage"

\* json.load returns a dict when the text is an object
IsDict(text) == \A i \in 1..Len(text) : text[i].t # "array"

\* json.load(f): the dict of the members of the text
json_load(text) ==
    [key \in {text[i].k : i \in 1..Len(text)} |->
        DecodeValue(text[CHOOSE i \in 1..Len(text) : text[i].k = key])]

\* the keys of the defaults only: a key that only the file has is dropped
Merge_known_only(defaults, loaded) ==
    [key \in DOMAIN defaults |->
        IF key \in DOMAIN loaded THEN loaded[key] ELSE defaults[key]]

\* {**self.DEFAULT_SETTINGS, **loaded}
Merge(defaults, loaded) ==
    [key \in (DOMAIN defaults) \cup (DOMAIN loaded) |->
        IF key \in DOMAIN loaded THEN loaded[key] ELSE defaults[key]]

NoFile == [exists |-> FALSE, text |-> <<>>]
File(text) == [exists |-> TRUE, text |-> text]

\* a save that falls back to the defaults in memory when the write fails
SaveResult_resetting(s, file, written) ==
    [settings |-> IF written THEN s ELSE DEFAULT_SETTINGS,
     disk     |-> IF written THEN File(json_dump(s)) ELSE file,
     ret      |-> written,
     wrote    |-> written]

\* ConfigManager.save: the record becomes the in-memory record; the file is
\* overwritten unless open/mkdir raise IOError (written = FALSE)
SaveResult(s, file, written) ==
    [settings |-> s,
     disk     |-> IF written THEN File(json_dump(s)) ELSE file,
     ret      |-> written,
     wrote    |-> written]

\* the defaults taken without the save of line 48
CreateResult_unsaved(file, written) ==
    [settings |-> DEFAULT_SETTINGS, disk |-> file, ret |-> "created", wrote |-> FALSE]

\* ConfigManager.load, lines 45-49: no file, the defaults are taken and saved
CreateResult(file, written) ==
    [SaveResult(DEFAULT_SETTINGS, file, written) EXCEPT !.ret = "created"]

\* ConfigManager.load with s in memory: readable = FALSE is an IOError of
\* open/read, written is the outcome of the save that load makes on its
\* recovery paths; {**DEFAULT_SETTINGS, **loaded} raises TypeError when loaded
\* is not a dict, which no except clause of load catches
LoadResult(s, file, readable, written) ==
    IF ~file.exists
    THEN CreateResult(file, written)
    ELSE IF ~readable
    THEN [SaveResult(DEFAULT_SETTINGS, file, written) EXCEPT !.ret = "io_error"]
    ELSE IF ~Decodable(file.text)
    THEN [SaveResult(DEFAULT_SETTINGS, file, written) EXCEPT !.ret = "decode_error"]
    ELSE IF ~IsDict(file.text)
    THEN [settings |-> s, disk |-> file, ret |-> "TypeError", wrote |-> FALSE]
    ELSE [settings |-> Merge(DEFAULT_SETTINGS, json_load(file.text)),
          disk     |-> file,
          ret      |-> "loaded",
          wrote    |-> FALSE]

\* self._settings[key] = value
SetResult(s, key, value) ==
    [k \in (DOMAIN s) \cup {key} |-> IF k = key THEN value ELSE s[k]]

(***************************************************************************)
(* The clip of a time (scheduler.py, _play_time_audio).                    *)
(***************************************************************************)
\* the 0 of hour % 12 left as it is
hour_12_zero(h) == h % 12

\* hour % 12, 0 replaced by 12
hour_12(h) == IF h % 12 = 0 THEN 12 ELSE h % 12

\* the format :d, which does not pad
Pad2_unpadded(n) == IF n < 10 THEN <<n>> ELSE <<n \div 10, n % 10>>

\* the format :02d of a number below 100
Pad2(n) == <<n \div 10, n % 10>>

\* the minute written before the hour
Filename_minute_first(h, m) == [hh |-> Pad2(m), mm |-> Pad2(hour_12(h))]

\* f"{hour_12:02d}_{minute:02d}": the digits of HH and of MM
Filename(h, m) == [hh |-> Pad2(hour_12(h)), mm |-> Pad2(m)]

NoCall == [made |-> FALSE, language |-> "", hh |-> <<>>, mm |-> <<>>,
           ext |-> "", started |-> FALSE]

GstResults == {"SUCCESS", "ASYNC", "FAILURE"}

\* AudioPlayer.play: False when the file is gone or set_state fails
PlayStarted(fileThere, gst) == fileThere /\ gst # "FAILURE"

\* the state of the playbin after AudioPlayer.play: play returns before
\* stop() when the file is gone, else stop() and set_state(PLAYING)
PlayerAfterPlay(state, fileThere, gst) ==
    IF ~fileThere THEN state
    ELSE IF gst = "FAILURE" THEN "NULL" ELSE "PLAYING"

\* no fallback to the .mp3 file
FoundSuffix_ogg_only(ogg, mp3) == IF ogg THEN "ogg" ELSE "none"

\* the suffix of the file that _play_time_audio hands to the player: the
\* .ogg file when it exists, else the .mp3 file when that exists, else none
FoundSuffix(ogg, mp3) == IF ogg THEN "ogg" ELSE IF mp3 THEN "mp3" ELSE "none"

\* the call of player.play that _play_time_audio makes, NoCall when neither
\* file exists
ResolveCall(language, h, m, ogg, mp3, fileThere, gst) ==
    IF FoundSuffix(ogg, mp3) # "none"
    THEN [made |-> TRUE, language |-> language,
          hh |-> Filename(h, m).hh, mm |-> Filename(h, m).mm,
          ext |-> FoundSuffix(ogg, mp3),
          started |-> PlayStarted(fileThere, gst)]
    ELSE NoCall

NoProbe == [ran |-> FALSE, ogg |-> FALSE, mp3 |-> FALSE]

NothingSaved == [valid |-> FALSE, rec |-> DEFAULT_SETTINGS]

\* VoiceClockApp.__init__, lines 70 and 73, then Gtk.main()
LoopStarted == [running |-> TRUE, scheduler |-> TRUE, initial |-> TRUE]

\* a file system that lets the settings file be read and written
FsFine == [readable |-> TRUE, written |-> TRUE]

(***************************************************************************)
(* State.                                                                  *)
(***************************************************************************)
VARIABLES
    hour, minute,          \* datetime.now(): the wall clock
    elapsed,               \* number of clock changes so far
    calls,                 \* number of operations counted so far (SpecConfig)
    _settings,             \* ConfigManager._settings
    disk,                  \* the settings file
    _last_played_hour,     \* TimeAnnouncer._last_played_hour
    _last_played_minute,   \* TimeAnnouncer._last_played_minute
    player_state,          \* state of the playbin: "NULL" or "PLAYING";
                           \* "RELEASED" when AudioPlayer._player is None
    op,                    \* the operation that made the last step
    ret,                   \* what it returned
    call,                  \* the call of player.play it made, or NoCall
    probe,                 \* what _play_time_audio found on the file system
    pre_hour, pre_minute,  \* the debounce state before the last step
    run_plays,             \* calls of player.play made by check_and_announce
                           \* since the clock last changed or the debounce
                           \* state was last reset (at most 2 are counted)
    ticks,                 \* SpecScenario: the log of check_and_announce calls
    saved,                 \* SpecConfig: the record that the last successful
                           \* write of the settings file wrote, if there was one
    sounding,              \* number of clips started and not stopped or
                           \* ended (at most 2 are counted)
    loop,                  \* SpecQuit: the GTK main loop: whether it runs,
                           \* whether the 60-second source and the one-shot
                           \* source of the first check are attached
    fs                     \* SpecFile: what the file system answered to the
                           \* last operation on the settings file: whether the
                           \* file could be read, whether it could be written

clock    == <<hour, minute, elapsed>>
\* the wall clock alone
now      == <<hour, minute>>
\* the counters and the log that bound the behaviours
tally    == <<calls, ticks, saved, fs, loop>>
book     == <<elapsed, calls, ticks, saved, fs, loop>>
store    == <<_settings, disk>>
debounce == <<_last_played_hour, _last_played_minute>>
\* the playbin and what it makes heard
player   == <<player_state, sounding>>
observed == <<op, ret, call, probe, pre_hour, pre_minute>>
vars     == <<hour, minute, elapsed, calls, _settings, disk, _last_played_hour,
              _last_played_minute, player_state, op, ret, call, probe,
              pre_hour, pre_minute, run_plays, ticks, saved, fs, loop,
              sounding>>

\* the values of the defaults, as if the engine had kept what it saw first
get_defaults(key, default) == DEFAULT_SETTINGS[key]

\* ConfigManager.get
get(key, default) == IF key \in DOMAIN _settings THEN _settings[key] ELSE default

\* the hour and the minute compared crosswise
_already_played_swapped(h, m) == _last_played_hour = m /\ _last_played_minute = h

\* TimeAnnouncer._already_played
_already_played(h, m) == _last_played_hour = h /\ _last_played_minute = m

\* the files the settings file may hold when the application starts
StartFiles == {NoFile, File(GarbageText)} \cup {File(json_dump(s)) : s \in ValidSettings}

\* ConfigManager.__init__ (load of the file found, one of Files, with the
\* outcomes of reading and writing it taken from Reads and Writes),
\* TimeAnnouncer.__init__, AudioPlayer.__init__
ConstructedOn(Files, Reads, Writes) ==
    /\ \E file \in Files, readable \in Reads, written \in Writes :
          LET r == LoadResult(<<>>, file, readable, written) IN
          /\ _settings = r.settings
          /\ disk = r.disk
    /\ _last_played_hour = -1
    /\ _last_played_minute = -1
    /\ player_state = "NULL"
    /\ sounding = 0
    /\ op = "init"
    /\ ret = "None"
    /\ call = NoCall
    /\ probe = NoProbe
    /\ pre_hour = -1
    /\ pre_minute = -1
    /\ run_plays = 0
    /\ ticks = <<>>
    /\ saved = NothingSaved
    /\ fs = FsFine
    /\ loop = LoopStarted
    /\ elapsed = 0
    /\ calls = 0

Constructed(Reads, Writes) == ConstructedOn(StartFiles, Reads, Writes)

\* the times at which a behaviour of Spec starts
StartHours == {23}
StartMinutes == {0, 30, 59}

\* the application starts on a settings file that it can read and write
Init ==
    /\ hour \in StartHours
    /\ minute \in StartMinutes
    /\ Constructed({TRUE}, {TRUE})

Min(a, b) == IF a < b THEN a ELSE b

(***************************************************************************)
(* The announcement engine.                                                *)
(***************************************************************************)
\* the new clip started without the stop() of line 54
SoundingAfterPlay_unstopped(n, fileThere, gst) ==
    IF ~fileThere \/ gst = "FAILURE" THEN n ELSE Min(2, n + 1)

\* the clips heard after AudioPlayer.play: as before when the file is gone
\* (line 51), else none after stop() (line 54) and the new one when
\* set_state(PLAYING) does not fail
SoundingAfterPlay(n, fileThere, gst) ==
    IF ~fileThere THEN n
    ELSE IF gst = "FAILURE" THEN 0 ELSE 1

\* TimeAnnouncer._play_time_audio(h, m) with the file system and the backend
\* answering ogg, mp3, fileThere, gst
_play_time_audio(h, m, ogg, mp3, fileThere, gst) ==
    LET c == ResolveCall(get("language", "en"), h, m, ogg, mp3, fileThere, gst) IN
    /\ call' = c
    /\ probe' = [ran |-> TRUE, ogg |-> ogg, mp3 |-> mp3]
    /\ player_state' = IF c.made THEN PlayerAfterPlay(player_state, fileThere, gst)
                       ELSE player_state
    /\ sounding' = IF c.made THEN SoundingAfterPlay(sounding, fileThere, gst)
                   ELSE sounding

\* the inputs of one _play_time_audio: whether the .ogg file exists, whether
\* the .mp3 file exists, whether the
\* file is still there when AudioPlayer.play looks again, and what set_state
\* returns (both asked only when a file was found)
Answers == {a \in [ogg : BOOLEAN, mp3 : BOOLEAN, fileThere : BOOLEAN, gst : GstResults] :
               /\ (~a.ogg /\ ~a.mp3) => (a.fileThere /\ a.gst = "SUCCESS")
               /\ ~a.fileThere => a.gst = "SUCCESS"}

\* a % b of Python for an integer b that is not 0: the result has the sign
\* of b
py_mod(a, b) == IF b > 0 THEN a % b ELSE 0 - ((0 - a) % (0 - b))

\* an interval that is not one of the dialog's three never matches
IntervalMatches_supported(m, interval) == interval \in INTERVALS /\ m % interval = 0

\* the interval taken as 60 whatever the settings say
IntervalMatches_hourly(m, interval) == m % 60 = 0

\* the condition of line 69
IntervalMatches(m, interval) == py_mod(m, interval) = 0

\* what minute % interval raises: TypeError when the interval is a string,
\* ZeroDivisionError when it is 0, else nothing
ModError(interval) ==
    IF type_name(interval) = "str" THEN "TypeError"
    ELSE IF interval = 0 THEN "ZeroDivisionError" ELSE "None"

ModRaises(interval) == ModError(interval) # "None"

\* the debounce state recorded before the muted flag is looked at
tick_muted_recording ==
    /\ get("muted", FALSE)
    /\ ret' = "True"
    /\ call' = NoCall
    /\ probe' = NoProbe
    /\ _last_played_hour' = hour
    /\ _last_played_minute' = minute
    /\ UNCHANGED <<player, run_plays>>

\* False returned while muted, which detaches the timer source
tick_muted_stopping ==
    /\ get("muted", FALSE)
    /\ ret' = "False"
    /\ call' = NoCall
    /\ probe' = NoProbe
    /\ UNCHANGED <<debounce, player, run_plays>>

\* check_and_announce, lines 56-58: muted, nothing is done
tick_muted ==
    /\ get("muted", FALSE)
    /\ ret' = "True"
    /\ call' = NoCall
    /\ probe' = NoProbe
    /\ UNCHANGED <<debounce, player, run_plays>>

\* False returned when there is nothing to announce
tick_skip_stopping ==
    /\ ~get("muted", FALSE)
    /\ ~ModRaises(get("interval", 60))
    /\ ~IntervalMatches(minute, get("interval", 60)) \/ _already_played(hour, minute)
    /\ ret' = "False"
    /\ call' = NoCall
    /\ probe' = NoProbe
    /\ UNCHANGED <<debounce, player, run_plays>>

\* check_and_announce, lines 60-76 when the minute does not match the
\* interval or was announced already: nothing is done
tick_skip ==
    /\ ~get("muted", FALSE)
    /\ ~ModRaises(get("interval", 60))
    /\ ~IntervalMatches(minute, get("interval", 60)) \/ _already_played(hour, minute)
    /\ ret' = "True"
    /\ call' = NoCall
    /\ probe' = NoProbe
    /\ UNCHANGED <<debounce, player, run_plays>>

\* the debounce state left as it was when player.play returns False, so that
\* the next tick of the minute tries again
tick_announce_retrying ==
    /\ ~get("muted", FALSE)
    /\ ~ModRaises(get("interval", 60))
    /\ IntervalMatches(minute, get("interval", 60))
    /\ ~_already_played(hour, minute)
    /\ \E a \in Answers :
          _play_time_audio(hour, minute, a.ogg, a.mp3, a.fileThere, a.gst)
    /\ _last_played_hour' = IF call'.made /\ ~call'.started
                            THEN _last_played_hour ELSE hour
    /\ _last_played_minute' = IF call'.made /\ ~call'.started
                              THEN _last_played_minute ELSE minute
    /\ run_plays' = Min(2, run_plays + (IF call'.made THEN 1 ELSE 0))
    /\ ret' = "True"

\* the debounce state set only when the player was called
tick_announce_recording_plays ==
    /\ ~get("muted", FALSE)
    /\ ~ModRaises(get("interval", 60))
    /\ IntervalMatches(minute, get("interval", 60))
    /\ ~_already_played(hour, minute)
    /\ \E a \in Answers :
          _play_time_audio(hour, minute, a.ogg, a.mp3, a.fileThere, a.gst)
    /\ _last_played_hour' = IF call'.made THEN hour ELSE _last_played_hour
    /\ _last_played_minute' = IF call'.made THEN minute ELSE _last_played_minute
    /\ run_plays' = Min(2, run_plays + (IF call'.made THEN 1 ELSE 0))
    /\ ret' = "True"

\* the clip played with the debounce state left as it was
tick_announce_unrecorded ==
    /\ ~get("muted", FALSE)
    /\ ~ModRaises(get("interval", 60))
    /\ IntervalMatches(minute, get("interval", 60))
    /\ ~_already_played(hour, minute)
    /\ \E a \in Answers :
          _play_time_audio(hour, minute, a.ogg, a.mp3, a.fileThere, a.gst)
    /\ run_plays' = Min(2, run_plays + (IF call'.made THEN 1 ELSE 0))
    /\ ret' = "True"
    /\ UNCHANGED debounce

\* check_and_announce, lines 60-76 when the minute matches the interval and
\* was not announced: the debounce state is set, then the clip is resolved
tick_announce ==
    /\ ~get("muted", FALSE)
    /\ ~ModRaises(get("interval", 60))
    /\ IntervalMatches(minute, get("interval", 60))
    /\ ~_already_played(hour, minute)
    /\ _last_played_hour' = hour
    /\ _last_played_minute' = minute
    /\ \E a \in Answers :
          _play_time_audio(hour, minute, a.ogg, a.mp3, a.fileThere, a.gst)
    /\ run_plays' = Min(2, run_plays + (IF call'.made THEN 1 ELSE 0))
    /\ ret' = "True"

\* check_and_announce, line 69 when minute % interval raises: the exception
\* leaves the method
tick_raise ==
    /\ ~get("muted", FALSE)
    /\ ModRaises(get("interval", 60))
    /\ ret' = ModError(get("interval", 60))
    /\ call' = NoCall
    /\ probe' = NoProbe
    /\ UNCHANGED <<debounce, player, run_plays>>

\* TimeAnnouncer.check_and_announce
check_and_announce ==
    /\ op' = "check_and_announce"
    /\ pre_hour' = _last_played_hour
    /\ pre_minute' = _last_played_minute
    /\ tick_muted \/ tick_skip \/ tick_announce \/ tick_raise
    /\ UNCHANGED <<now, store>>

\* VoiceClockApp._on_scheduler_tick
_on_scheduler_tick ==
    /\ check_and_announce
    /\ UNCHANGED book

\* force_announce made to respect the debounce state
force_announce_debounced ==
    /\ op' = "force_announce"
    /\ ret' = "None"
    /\ pre_hour' = _last_played_hour
    /\ pre_minute' = _last_played_minute
    /\ IF _already_played(hour, minute)
       THEN call' = NoCall /\ probe' = NoProbe /\ UNCHANGED player
       ELSE \E a \in Answers :
               _play_time_audio(hour, minute, a.ogg, a.mp3, a.fileThere, a.gst)
    /\ UNCHANGED <<now, store, debounce, run_plays>>

\* force_announce made to record the minute as announced
force_announce_recording ==
    /\ op' = "force_announce"
    /\ ret' = "None"
    /\ pre_hour' = _last_played_hour
    /\ pre_minute' = _last_played_minute
    /\ \E a \in Answers :
          _play_time_audio(hour, minute, a.ogg, a.mp3, a.fileThere, a.gst)
    /\ _last_played_hour' = hour
    /\ _last_played_minute' = minute
    /\ UNCHANGED <<now, store, run_plays>>

\* TimeAnnouncer.force_announce
force_announce ==
    /\ op' = "force_announce"
    /\ ret' = "None"
    /\ pre_hour' = _last_played_hour
    /\ pre_minute' = _last_played_minute
    /\ \E a \in Answers :
          _play_time_audio(hour, minute, a.ogg, a.mp3, a.fileThere, a.gst)
    /\ UNCHANGED <<now, store, debounce, run_plays>>

\* a reset that leaves the debounce state as it is
reset_debounce_noop ==
    /\ op' = "reset_debounce"
    /\ ret' = "None"
    /\ pre_hour' = _last_played_hour
    /\ pre_minute' = _last_played_minute
    /\ call' = NoCall
    /\ probe' = NoProbe
    /\ run_plays' = 0
    /\ UNCHANGED <<now, store, debounce, player>>

\* TimeAnnouncer.reset_debounce
reset_debounce ==
    /\ op' = "reset_debounce"
    /\ ret' = "None"
    /\ pre_hour' = _last_played_hour
    /\ pre_minute' = _last_played_minute
    /\ _last_played_minute' = -1
    /\ _last_played_hour' = -1
    /\ call' = NoCall
    /\ probe' = NoProbe
    /\ run_plays' = 0
    /\ UNCHANGED <<now, store, player>>

(***************************************************************************)
(* The clock, the player's bus, the tray and the settings dialog.          *)
(***************************************************************************)
\* an operation that makes no call of player.play
Silent(name, value) ==
    /\ op' = name
    /\ ret' = value
    /\ call' = NoCall
    /\ probe' = NoProbe
    /\ pre_hour' = _last_played_hour
    /\ pre_minute' = _last_played_minute

\* the wall clock d minutes later
HourAfter(h, m, d) == ((h * 60 + m + d) \div 60) % 24
MinuteAfter(h, m, d) == (h * 60 + m + d) % 60

\* d minutes pass
Elapse(d, bound) ==
    /\ elapsed < bound
    /\ elapsed' = elapsed + 1
    /\ hour' = HourAfter(hour, minute, d)
    /\ minute' = MinuteAfter(hour, minute, d)
    /\ Silent("elapse", "None")
    /\ run_plays' = IF d % (24 * 60) = 0 THEN run_plays ELSE 0
    /\ UNCHANGED <<tally, store, debounce, player>>

\* a minute passes
ElapseMinute == Elapse(1, MaxElapsed)

\* a day passes: the clock shows the same hour and minute again
ElapseDay == Elapse(24 * 60, MaxElapsed)

\* AudioPlayer.stop
stop == player_state' = "NULL" /\ sounding' = 0

\* AudioPlayer._on_eos
_on_eos ==
    /\ player_state = "PLAYING"
    /\ stop
    /\ Silent("_on_eos", "None")
    /\ UNCHANGED <<now, book, store, debounce, run_plays>>

\* AudioPlayer._on_error
_on_error ==
    /\ player_state = "PLAYING"
    /\ stop
    /\ Silent("_on_error", "None")
    /\ UNCHANGED <<now, book, store, debounce, run_plays>>

\* ConfigManager.set(key, value, auto_save)
set(key, value, auto_save, written) ==
    LET s == SetResult(_settings, key, value) IN
    IF auto_save
    THEN /\ _settings' = SaveResult(s, disk, written).settings
         /\ disk' = SaveResult(s, disk, written).disk
    ELSE /\ _settings' = s
         /\ UNCHANGED disk

\* the values that the tray and the dialog give to a key
SettingValues(key) ==
    CASE key = "language" -> LANGUAGES
      [] key = "interval" -> INTERVALS
      [] key = "muted"    -> BOOLEAN

\* ConfigManager.set(key, value) called as such, persisting at once
SetSetting ==
    /\ \E key \in DOMAIN DEFAULT_SETTINGS, written \in BOOLEAN :
          \E value \in SettingValues(key) : set(key, value, TRUE, written)
    /\ Silent("set", "None")
    /\ UNCHANGED <<now, book, debounce, player, run_plays>>

\* SystemTray._on_mute_toggled: the check item, which shows the muted
\* setting, is flipped
_on_mute_toggled ==
    /\ \E written \in BOOLEAN : set("muted", ~get("muted", FALSE), TRUE, written)
    /\ Silent("_on_mute_toggled", "None")
    /\ UNCHANGED <<now, book, debounce, player, run_plays>>

\* a save that resets the debounce state only when it changed a setting
_on_save_clicked_changed ==
    /\ \E lang_id \in LANGUAGES, interval_id \in INTERVALS, written \in BOOLEAN :
          LET s1 == SetResult(_settings, "language", lang_id)
              s2 == SetResult(s1, "interval", interval_id)
              r  == SaveResult(s2, disk, written) IN
          /\ _settings' = r.settings
          /\ disk' = r.disk
    /\ _last_played_minute' = IF _settings' = _settings THEN _last_played_minute ELSE -1
    /\ _last_played_hour' = IF _settings' = _settings THEN _last_played_hour ELSE -1
    /\ run_plays' = 0
    /\ Silent("_on_save_clicked", "None")
    /\ UNCHANGED <<now, book, player>>

\* what SettingsWindow._on_save_clicked does to the application with the
\* ids chosen in the two combo boxes, VoiceClockApp._on_settings_saved
\* included: update_mute_state finds the check item equal to the muted
\* setting, reset_debounce clears the state
SaveClicked ==
    /\ \E lang_id \in LANGUAGES, interval_id \in INTERVALS, written \in BOOLEAN :
          LET s1 == SetResult(_settings, "language", lang_id)
              s2 == SetResult(s1, "interval", interval_id)
              r  == SaveResult(s2, disk, written) IN
          /\ _settings' = r.settings
          /\ disk' = r.disk
    /\ _last_played_minute' = -1
    /\ _last_played_hour' = -1
    /\ run_plays' = 0
    /\ Silent("_on_save_clicked", "None")
    /\ UNCHANGED <<now, player>>

\* SettingsWindow._on_save_clicked
_on_save_clicked == SaveClicked /\ UNCHANGED book

\* the two hooks of the engine that the application does not bind to a timer
ForceAnnounce == force_announce /\ UNCHANGED book
ResetDebounce == reset_debounce /\ UNCHANGED book

Next ==
    \/ _on_scheduler_tick
    \/ ForceAnnounce
    \/ ResetDebounce
    \/ ElapseMinute
    \/ ElapseDay
    \/ _on_eos
    \/ _on_error
    \/ _on_mute_toggled
    \/ _on_save_clicked
    \/ SetSetting

Spec == Init /\ [][Next]_vars

(***************************************************************************)
(* SpecCall: an engine constructed at any time of the day, under any       *)
(* settings, and the first call of one of its three entry points.          *)
(***************************************************************************)
InitCall ==
    /\ hour \in 0..23
    /\ minute \in 0..59
    /\ Constructed({TRUE}, {TRUE})

FirstCall(A) ==
    /\ op = "init"
    /\ A
    /\ UNCHANGED book

CallCheckAndAnnounce == FirstCall(check_and_announce)
CallForceAnnounce == FirstCall(force_announce)
CallResetDebounce == FirstCall(reset_debounce)

NextCall ==
    \/ CallCheckAndAnnounce
    \/ CallForceAnnounce
    \/ CallResetDebounce

SpecCall == InitCall /\ [][NextCall]_vars

(***************************************************************************)
(* SpecScenario: a fresh engine at 14:00 under language=en, interval=60,   *)
(* muted=false; the clock moves and check_and_announce is called, each     *)
(* call logged with the time it saw and the call of the player it made.    *)
(***************************************************************************)
ScenarioSettings == [language |-> "en", interval |-> 60, muted |-> FALSE]

InitScenario ==
    /\ hour = 14
    /\ minute = 0
    /\ Constructed({TRUE}, {TRUE})
    /\ _settings = ScenarioSettings

ScenarioTick ==
    /\ Len(ticks) < MaxTicks
    /\ check_and_announce
    /\ ticks' = Append(ticks, [hour |-> hour, minute |-> minute,
                               probe |-> probe', call |-> call'])
    /\ UNCHANGED <<elapsed, calls, saved, fs, loop>>

\* the clock moves to the next minute, or by the 59 minutes that lead from
\* the first minute of an hour to the next hour
ScenarioSteps == {1, 59}

ScenarioElapse ==
    \E d \in ScenarioSteps : Elapse(d, MaxScenarioElapsed)

NextScenario ==
    \/ ScenarioTick
    \/ ScenarioElapse

SpecScenario == InitScenario /\ [][NextScenario]_vars

(***************************************************************************)
(* SpecConfig: the settings store alone, constructed on any file, and the  *)
(* calls of load, save and set.                                            *)
(***************************************************************************)
InitConfig ==
    /\ hour = 0
    /\ minute = 0
    /\ Constructed(BOOLEAN, BOOLEAN)

\* the record written by a save of the caller, kept until a load that could
\* not read the file replaces the file
Written(r) == IF r.wrote THEN [valid |-> TRUE, rec |-> r.settings] ELSE saved

\* an operation of the settings store that leaves r in memory and on disk
StoreStep(name, r, value, kept) ==
    /\ calls < MaxConfigOps
    /\ calls' = calls + 1
    /\ _settings' = r.settings
    /\ disk' = r.disk
    /\ saved' = kept
    /\ Silent(name, value)
    /\ UNCHANGED <<clock, debounce, player, run_plays, ticks, fs, loop>>

\* ConfigManager.load
CallLoad ==
    \E readable, written \in BOOLEAN :
        LET r == LoadResult(_settings, disk, readable, written) IN
        StoreStep("load", r, r.ret,
                  IF r.ret = "io_error" THEN NothingSaved ELSE saved)

\* ConfigManager.save()
CallSave ==
    \E written \in BOOLEAN :
        LET r == SaveResult(_settings, disk, written) IN
        StoreStep("save", r, IF r.ret THEN "True" ELSE "False", Written(r))

\* ConfigManager.set(key, value, auto_save)
CallSet ==
    \E key \in DOMAIN DEFAULT_SETTINGS, auto_save, written \in BOOLEAN :
        \E value \in SettingValues(key) :
            LET s == SetResult(_settings, key, value)
                r == IF auto_save THEN SaveResult(s, disk, written)
                     ELSE [settings |-> s, disk |-> disk, ret |-> FALSE, wrote |-> FALSE] IN
            StoreStep("set", r, "None", Written(r))

NextConfig ==
    \/ CallLoad
    \/ CallSave
    \/ CallSet

SpecConfig == InitConfig /\ [][NextConfig]_vars

(***************************************************************************)
(* SpecFile: the settings store and the engine of an application whose     *)
(* settings file is edited by hand while it runs: keys left out, a key     *)
(* that the application does not know, an interval that is not one of the  *)
(* three of the dialog, a text that is no JSON object, no file at all.     *)
(***************************************************************************)
\* the record whose keys a file written by hand keeps or leaves out
HandSettings == [language |-> "bn", interval |-> 30, muted |-> TRUE]

\* the intervals that a hand-written file may hold
HandIntervals == <<0, 0 - 5, "fast", 7>>

\* the dict s with the keys of K only
Restrict(s, K) == [key \in K |-> s[key]]

\* the texts of the objects that hold some of the known keys, with or
\* without the unknown key
PartialTexts ==
    {json_dump(Restrict(HandSettings, K)) : K \in SUBSET (DOMAIN HandSettings)}
    \cup {json_dump(SetResult(Restrict(HandSettings, K), ExtraKeys[1], "dark")) :
              K \in SUBSET (DOMAIN HandSettings)}

\* the texts of the objects that hold an interval only
IntervalTexts ==
    {json_dump(Restrict([interval |-> HandIntervals[i]], {"interval"})) :
        i \in 1..Len(HandIntervals)}

HandFiles ==
    {NoFile, File(GarbageText), File(ArrayText)}
    \cup {File(text) : text \in PartialTexts \cup IntervalTexts}

\* the minutes of the hour at which a behaviour of SpecFile runs
FileMinutes == {0, 15, 35}

InitFile ==
    /\ hour = 9
    /\ minute \in FileMinutes
    /\ Constructed({TRUE}, {TRUE})

\* an operation counted by SpecFile that leaves r in memory and on disk,
\* the file system having answered readable and written
FileStep(name, r, value, readable, written) ==
    /\ calls < MaxFileOps
    /\ calls' = calls + 1
    /\ _settings' = r.settings
    /\ disk' = r.disk
    /\ fs' = [readable |-> readable, written |-> written]
    /\ Silent(name, value)
    /\ UNCHANGED <<clock, debounce, player, run_plays, ticks, saved, loop>>

\* the user replaces or removes the settings file
EditFile ==
    \E file \in HandFiles :
        FileStep("edit", [settings |-> _settings, disk |-> file], "None",
                 fs.readable, fs.written)

\* ConfigManager.load
FileLoad ==
    \E readable, written \in BOOLEAN :
        LET r == LoadResult(_settings, disk, readable, written) IN
        FileStep("load", r, r.ret, readable, written)

\* ConfigManager.save()
FileSave ==
    \E written \in BOOLEAN :
        LET r == SaveResult(_settings, disk, written) IN
        FileStep("save", r, IF r.ret THEN "True" ELSE "False", fs.readable, written)

\* a set that saves whatever auto_save says
FileSet_saving ==
    \E key \in DOMAIN DEFAULT_SETTINGS, auto_save, written \in BOOLEAN :
        \E value \in SettingValues(key) :
            LET s == SetResult(_settings, key, value)
                r == SaveResult(s, disk, written) IN
            FileStep(IF auto_save THEN "set" ELSE "set_deferred", r, "None",
                     fs.readable, written)

\* ConfigManager.set(key, value, auto_save)
FileSet ==
    \E key \in DOMAIN DEFAULT_SETTINGS, auto_save, written \in BOOLEAN :
        \E value \in SettingValues(key) :
            LET s == SetResult(_settings, key, value)
                r == IF auto_save THEN SaveResult(s, disk, written)
                     ELSE [settings |-> s, disk |-> disk] IN
            FileStep(IF auto_save THEN "set" ELSE "set_deferred", r, "None",
                     fs.readable, written)

\* VoiceClockApp._on_scheduler_tick
FileTick ==
    /\ calls < MaxFileOps
    /\ calls' = calls + 1
    /\ check_and_announce
    /\ UNCHANGED <<elapsed, ticks, saved, fs, loop>>

NextFile ==
    \/ EditFile
    \/ FileLoad
    \/ FileSave
    \/ FileSet
    \/ FileTick

SpecFile == InitFile /\ [][NextFile]_vars

(***************************************************************************)
(* SpecQuit: the application from its start to its stop: the two timer     *)
(* sources of the main loop, the Quit item of the tray, and the calls of   *)
(* _quit, AudioPlayer.cleanup and AudioPlayer.stop made once more after it.*)
(***************************************************************************)
InitQuit ==
    /\ hour \in StartHours
    /\ minute \in StartMinutes
    /\ Constructed({TRUE}, {TRUE})

\* what a call of a method of self._player ends with: AttributeError when
\* self._player is None
PlayerCallResult == IF player_state = "RELEASED" THEN "AttributeError" ELSE "None"

\* the 60-second source fires: it stays attached when _on_scheduler_tick
\* returns True
QuitTick ==
    /\ loop.running
    /\ loop.scheduler
    /\ check_and_announce
    /\ loop' = [loop EXCEPT !.scheduler = (ret' = "True")]
    /\ UNCHANGED <<elapsed, calls, ticks, saved, fs>>

\* a startup check that keeps no account of the minute: it neither reads
\* nor sets the debounce state of the periodic tick
_initial_check_unshared ==
    /\ loop.running
    /\ loop.initial
    /\ op' = "check_and_announce"
    /\ ret' = "True"
    /\ pre_hour' = _last_played_hour
    /\ pre_minute' = _last_played_minute
    /\ IF ~get("muted", FALSE) /\ IntervalMatches(minute, get("interval", 60))
       THEN /\ \E a \in Answers :
                  _play_time_audio(hour, minute, a.ogg, a.mp3, a.fileThere, a.gst)
            /\ run_plays' = Min(2, run_plays + (IF call'.made THEN 1 ELSE 0))
       ELSE /\ call' = NoCall
            /\ probe' = NoProbe
            /\ UNCHANGED <<player, run_plays>>
    /\ loop' = [loop EXCEPT !.initial = FALSE]
    /\ UNCHANGED <<now, store, debounce, elapsed, calls, ticks, saved, fs>>

\* VoiceClockApp._initial_check: the one-shot source fires and is removed
_initial_check ==
    /\ loop.running
    /\ loop.initial
    /\ check_and_announce
    /\ loop' = [loop EXCEPT !.initial = FALSE]
    /\ UNCHANGED <<elapsed, calls, ticks, saved, fs>>

\* VoiceClockApp._quit: source_remove of the 60-second source (a warning and
\* nothing else when it is gone), player.cleanup(), then Gtk.main_quit()
\* unless cleanup raised
_quit ==
    /\ Silent("_quit", PlayerCallResult)
    /\ player_state' = "RELEASED"
    /\ sounding' = 0
    /\ loop' = [running   |-> IF PlayerCallResult = "None" THEN FALSE ELSE loop.running,
                scheduler |-> FALSE,
                initial   |-> loop.initial]
    /\ UNCHANGED <<now, store, debounce, run_plays, elapsed, calls, ticks, saved, fs>>

\* AudioPlayer.cleanup called after the application stopped: self.stop(),
\* then self._player = None
cleanup ==
    /\ ~loop.running
    /\ Silent("cleanup", PlayerCallResult)
    /\ player_state' = "RELEASED"
    /\ sounding' = 0
    /\ UNCHANGED <<now, store, debounce, run_plays, book>>

\* AudioPlayer.stop called after the application stopped
PlayerStop ==
    /\ ~loop.running
    /\ Silent("stop", PlayerCallResult)
    /\ player_state' = IF player_state = "RELEASED" THEN "RELEASED" ELSE "NULL"
    /\ sounding' = 0
    /\ UNCHANGED <<now, store, debounce, run_plays, book>>

NextQuit ==
    \/ QuitTick
    \/ _initial_check
    \/ _quit
    \/ cleanup
    \/ PlayerStop
    \/ ElapseMinute
    \/ _on_eos

SpecQuit == InitQuit /\ [][NextQuit]_vars

(***************************************************************************)
(* SpecInterval: an engine constructed at any minute on a settings file    *)
(* that holds a positive interval, supported or not, and its first tick.   *)
(***************************************************************************)
PositiveIntervals == {1, 7, 15, 30, 45, 59, 60, 61, 120}

IntervalFiles ==
    {File(json_dump([language |-> l, interval |-> i, muted |-> m])) :
        l \in LANGUAGES, i \in PositiveIntervals, m \in BOOLEAN}

\* the hours at which a behaviour of SpecInterval starts
IntervalHours == {0, 13}

InitInterval ==
    /\ hour \in IntervalHours
    /\ minute \in 0..59
    /\ ConstructedOn(IntervalFiles, {TRUE}, {TRUE})

\* the first tick
IntervalTick == FirstCall(check_and_announce)

\* the second tick, in the same minute
IntervalSecondTick ==
    /\ op = "check_and_announce"
    /\ check_and_announce
    /\ UNCHANGED book

NextInterval ==
    \/ IntervalTick
    \/ IntervalSecondTick

SpecInterval == InitInterval /\ [][NextInterval]_vars

(***************************************************************************)
(* SpecMute: an application started muted: the two timer sources, the      *)
(* Mute item of the tray and the clock.                                    *)
(***************************************************************************)
InitMute ==
    /\ hour \in StartHours
    /\ minute \in StartMinutes
    /\ Constructed({TRUE}, {TRUE})
    /\ _settings.muted

NextMute ==
    \/ QuitTick
    \/ _initial_check
    \/ _on_mute_toggled
    \/ ElapseMinute
    \/ ElapseDay

SpecMute == InitMute /\ [][NextMute]_vars

(***************************************************************************)
(* Properties of the announcement engine.                                  *)
(***************************************************************************)
\* the number that two digits write
TwoDigits(d) == 10 * d[1] + d[2]

\* the last step looked for a clip and a file of it, .ogg or .mp3, exists
AssetFound == probe.ran /\ (probe.ogg \/ probe.mp3)

\* C1: for every interval in {15, 30, 60}, every hour and every minute, a
\* check_and_announce of an unmuted engine at a minute that was not announced
\* calls the player if and only if minute mod interval = 0 (and a file of
\* the clip exists)
C1_PlaysIffMinuteMatchesInterval ==
    (/\ op = "check_and_announce"
     /\ ~_settings.muted
     /\ ~(pre_hour = hour /\ pre_minute = minute))
    => /\ _settings.interval \in INTERVALS
       /\ call.made => minute % _settings.interval = 0
       /\ (minute % _settings.interval = 0) => probe.ran
       /\ (minute % _settings.interval = 0 /\ AssetFound) => call.made

C1_Witness ==
    /\ op = "check_and_announce"
    /\ ~_settings.muted
    /\ _settings.interval = 30
    /\ minute = 30
    /\ call.made

\* C2: the ticks made while the clock shows one (hour, minute), with no
\* reset of the debounce state between them, call the player at most once,
\* whatever changes of the mute flag and of the other settings are made
\* between them
C2_AtMostOnePlayPerMinute == run_plays <= 1

C2_Witness ==
    /\ op = "check_and_announce"
    /\ ~_settings.muted
    /\ minute % _settings.interval = 0
    /\ pre_hour = hour /\ pre_minute = minute
    /\ run_plays = 1
    /\ ~call.made

\* C3: reset_debounce leaves the debounce state at (-1, -1), and the
\* check_and_announce that follows it, unmuted and at a minute that matches
\* the interval, looks for the clip and plays the file found, also when the
\* debounce state before the reset was this very (hour, minute)
C3_ResetThenTickPlays ==
    /\ [](op = "reset_debounce" => (_last_played_hour = -1 /\ _last_played_minute = -1))
    /\ [][(/\ op = "reset_debounce"
           /\ op' = "check_and_announce"
           /\ ~_settings.muted
           /\ minute % _settings.interval = 0)
          => /\ probe'.ran
             /\ (probe'.ogg \/ probe'.mp3) => call'.made
             /\ _last_played_hour' = hour /\ _last_played_minute' = minute]_vars

C3_Witness ==
    /\ op = "reset_debounce"
    /\ pre_hour = hour /\ pre_minute = minute
    /\ _last_played_hour = -1 /\ _last_played_minute = -1
    /\ ~_settings.muted
    /\ minute % _settings.interval = 0

\* C4: while muted, a check_and_announce at any minute makes no call of the
\* player, looks for no clip, leaves the debounce state as it was and
\* returns True
C4_MutedTickDoesNothing ==
    (op = "check_and_announce" /\ _settings.muted)
    => /\ ~call.made
       /\ ~probe.ran
       /\ _last_played_hour = pre_hour
       /\ _last_played_minute = pre_minute
       /\ ret = "True"

C4_Witness ==
    /\ op = "check_and_announce"
    /\ _settings.muted
    /\ minute % _settings.interval = 0
    /\ ~(_last_played_hour = hour /\ _last_played_minute = minute)
    /\ ret = "True"

C6_HourMapping ==
    call.made
    => /\ TwoDigits(call.hh) \in 1..12
       /\ TwoDigits(call.hh) % 12 = hour % 12
       /\ hour \in {0, 12} => call.hh = <<1, 2>>
       /\ hour = 13 => call.hh = <<0, 1>>
       /\ hour = 23 => call.hh = <<1, 1>>

C6_Witness ==
    /\ call.made
    /\ hour = 0
    /\ call.hh = <<1, 2>>

\* C7: a resolution of the clip hands the .ogg file to the player when it
\* exists, the .mp3 file when the .ogg file does not exist and the .mp3 file
\* does, and makes no call and raises nothing when neither exists
C7_MissingAssetFallback ==
    probe.ran
    => /\ probe.ogg => (call.made /\ call.ext = "ogg")
       /\ (~probe.ogg /\ probe.mp3) => (call.made /\ call.ext = "mp3")
       /\ (~probe.ogg /\ ~probe.mp3) => (~call.made /\ ret \in {"True", "None"})

C7_Witness ==
    /\ probe.ran
    /\ ~probe.ogg
    /\ probe.mp3
    /\ call.made
    /\ call.ext = "mp3"

\* C8: force_announce looks for the clip of the current (hour, minute) and
\* plays the file found, whatever the interval and the debounce state: also
\* at a minute that does not match the interval and at a minute announced
\* already
C8_ForceAnnounceBypasses ==
    (op = "force_announce")
    => /\ probe.ran
       /\ (probe.ogg \/ probe.mp3)
          => /\ call.made
             /\ TwoDigits(call.mm) = minute
             /\ TwoDigits(call.hh) % 12 = hour % 12
             /\ call.language = _settings.language

\* a force_announce that played at a minute announced already and, the
\* interval having been raised since, no longer matching the interval
C8_Witness ==
    /\ op = "force_announce"
    /\ pre_hour = hour /\ pre_minute = minute
    /\ _last_played_hour = hour /\ _last_played_minute = minute
    /\ minute % _settings.interval # 0
    /\ call.made


(***************************************************************************)
(* The engine with a log of its calls: ticks holds, for every call of     *)
(* check_and_announce and of force_announce, the wall-clock minute of the *)
(* call (the number of clock steps before it), the muted flag, whether    *)
(* the minute matched the interval, whether the debounce state that the   *)
(* call found was another than the current (hour, minute), and whether    *)
(* the call handed a clip to the player.  The                             *)
(* application starts without a settings file, the .mp3 files are absent, *)
(* a clip found is still there when the player opens it, the backend      *)
(* starts it, and the settings file can be written.                       *)
(***************************************************************************)
LogEntry(name) ==
    [op |-> name, at |-> elapsed, muted |-> get("muted", FALSE),
     match |-> IntervalMatches(minute, get("interval", 60)),
     fresh |-> ~_already_played(hour, minute), made |-> call'.made]

\* the answers of the file system and of the backend under which a clip that
\* is installed plays
PlainAnswer ==
    /\ ~probe'.mp3
    /\ call'.made => call'.started

\* the application is launched on the hour
LogMinutes == {0}

InitLog ==
    /\ hour \in StartHours
    /\ minute \in LogMinutes
    /\ ConstructedOn({NoFile}, {TRUE}, {TRUE})

LogTick ==
    /\ Len(ticks) < MaxLog
    /\ check_and_announce
    /\ PlainAnswer
    /\ ticks' = Append(ticks, LogEntry("check_and_announce"))
    /\ UNCHANGED <<elapsed, calls, saved, fs, loop>>

LogForce ==
    /\ Len(ticks) < MaxLog
    /\ force_announce
    /\ PlainAnswer
    /\ ticks' = Append(ticks, LogEntry("force_announce"))
    /\ UNCHANGED <<elapsed, calls, saved, fs, loop>>

LogSave ==
    /\ _on_save_clicked
    /\ disk' = SaveResult(_settings', disk, TRUE).disk

LogMute ==
    /\ _on_mute_toggled
    /\ disk' = SaveResult(_settings', disk, TRUE).disk

NextLog ==
    \/ LogTick
    \/ LogForce
    \/ LogSave
    \/ LogMute
    \/ ElapseMinute
    \/ ElapseDay

SpecLog == InitLog /\ [][NextLog]_vars


(***************************************************************************)
(* The unmuted clock as time passes: the 60-second source fires at least  *)
(* once in every wall-clock minute, the clips are installed, and the      *)
(* dialog may be saved.  ticks is the log of the current wall-clock       *)
(* minute: the calls of check_and_announce and the saves of the dialog.   *)
(***************************************************************************)
\* the .ogg file of every clip is installed and plays
ClipsInstalled ==
    /\ probe'.ran => (probe'.ogg /\ ~probe'.mp3)
    /\ call'.made => call'.started

InitLive ==
    /\ hour \in StartHours
    /\ minute \in StartMinutes
    /\ ConstructedOn({NoFile}, {TRUE}, {TRUE})

LiveTick ==
    /\ Len(ticks) < MaxLiveOps
    /\ check_and_announce
    /\ ClipsInstalled
    /\ ticks' = Append(ticks, LogEntry("check_and_announce"))
    /\ UNCHANGED <<elapsed, calls, saved, fs, loop>>

LiveSave ==
    /\ Len(ticks) < MaxLiveOps
    /\ SaveClicked
    /\ disk' = SaveResult(_settings', disk, TRUE).disk
    /\ ticks' = Append(ticks, LogEntry("_on_save_clicked"))
    /\ UNCHANGED <<elapsed, calls, saved, fs, loop>>

\* the minute ends, the source having fired in it
LiveElapse ==
    /\ elapsed < MaxLiveElapsed
    /\ \E i \in 1..Len(ticks) : ticks[i].op = "check_and_announce"
    /\ elapsed' = elapsed + 1
    /\ hour' = HourAfter(hour, minute, 1)
    /\ minute' = MinuteAfter(hour, minute, 1)
    /\ Silent("elapse", "None")
    /\ run_plays' = 0
    /\ ticks' = <<>>
    /\ UNCHANGED <<calls, saved, fs, loop, store, debounce, player>>

NextLive ==
    \/ LiveTick
    \/ LiveSave
    \/ LiveElapse

SpecLive == InitLive /\ [][NextLive]_vars

\* GLib calls the 60-second source again and again (main.py, line 70), and
\* time passes
SpecLiveFair ==
    InitLive /\ [][NextLive]_vars /\ WF_vars(LiveTick) /\ WF_vars(LiveElapse)


(***************************************************************************)
(* Properties of the scenario and of the settings store.                   *)
(***************************************************************************)
\* the times of the four ticks of the scenario
ScenarioTimes == <<[hour |-> 14, minute |-> 0], [hour |-> 14, minute |-> 0],
                   [hour |-> 14, minute |-> 1], [hour |-> 15, minute |-> 0]>>

\* the log is the four ticks of the scenario, the clips being installed
ScenarioRan ==
    /\ Len(ticks) = 4
    /\ \A i \in 1..4 :
          /\ ticks[i].hour = ScenarioTimes[i].hour
          /\ ticks[i].minute = ScenarioTimes[i].minute
          /\ ticks[i].probe.ran => (ticks[i].probe.ogg \/ ticks[i].probe.mp3)

\* C9: under language=en, interval=60, muted=false, the ticks 14:00, 14:00,
\* 14:01, 15:00 of a fresh engine make two calls of the player: the clip
\* 02_00 at the first tick and the clip 03_00 at the fourth; the second and
\* the third tick make none
C9_Scenario ==
    ScenarioRan
    => /\ ticks[1].call.made
       /\ ticks[1].call.language = "en"
       /\ ticks[1].call.hh = <<0, 2>> /\ ticks[1].call.mm = <<0, 0>>
       /\ ~ticks[2].call.made
       /\ ~ticks[3].call.made
       /\ ticks[4].call.made
       /\ ticks[4].call.language = "en"
       /\ ticks[4].call.hh = <<0, 3>> /\ ticks[4].call.mm = <<0, 0>>

C9_Witness ==
    /\ ScenarioRan
    /\ ticks[1].call.made
    /\ ticks[4].call.made

\* C10: for every record over language in {en, bn}, interval in {15, 30, 60}
\* and muted in {true, false}, a load of the file that a successful save
\* wrote leaves in memory a record equal to the one saved
C10_SettingsRoundTrip ==
    (op = "load" /\ saved.valid /\ ret # "io_error")
    => /\ ret = "loaded"
       /\ _settings = saved.rec

C10_Witness ==
    /\ op = "load"
    /\ ret = "loaded"
    /\ saved.valid
    /\ saved.rec = [language |-> "bn", interval |-> 30, muted |-> TRUE]
    /\ _settings = saved.rec

TypeOK ==
    /\ hour \in 0..23
    /\ minute \in 0..59
    /\ _settings \in ValidSettings
    /\ player_state \in {"NULL", "PLAYING"}
    /\ run_plays \in 0..2

(***************************************************************************)
(* Properties of the settings store on files written by hand.              *)
(***************************************************************************)
\* the file holds a text that is not the text of a JSON object
InvalidContent(file) ==
    file.exists /\ ~(Decodable(file.text) /\ IsDict(file.text))

\* C11: a load of a settings file with invalid content (a text that is not
\* JSON, a file that cannot be read, JSON that is not an object) raises
\* nothing, leaves the baseline defaults in memory and leaves the file
\* overwritten with them (as it was when the file system refuses the write).
C11_InvalidContentNeverRaises ==
    [][(op' = "load" /\ InvalidContent(disk))
          => /\ ret' \in {"decode_error", "io_error"}
             /\ _settings' = DEFAULT_SETTINGS
             /\ disk' = IF fs'.written THEN File(json_dump(DEFAULT_SETTINGS))
                        ELSE disk]_vars

\* the part of C11 that the code keeps: a text that is not JSON
LoadOfGarbageRecovers ==
    [][(op' = "load" /\ disk.exists /\ ~Decodable(disk.text))
          => /\ ret' \in {"decode_error", "io_error"}
             /\ _settings' = DEFAULT_SETTINGS
             /\ disk' = IF fs'.written THEN File(json_dump(DEFAULT_SETTINGS))
                        ELSE disk]_vars

\* the value that the text gives to a key, decoded
ValueIn(text, key) == DecodeValue(text[CHOOSE i \in 1..Len(text) : text[i].k = key])
KeysIn(text) == {text[i].k : i \in 1..Len(text)}

\* C12: a load that parses the file leaves every known key that the file
\* lacks at its baseline default, every known key that the file has at the
\* file's value and every other key of the file in memory with the file's
\* value; the save that follows writes the members of these other keys back.
C12_LoadMergesAndKeepsUnknownKeys ==
    [][/\ (op' = "load" /\ ret' = "loaded")
            => /\ \A key \in DOMAIN DEFAULT_SETTINGS :
                     /\ key \in DOMAIN _settings'
                     /\ _settings'[key] = IF key \in KeysIn(disk.text)
                                          THEN ValueIn(disk.text, key)
                                          ELSE DEFAULT_SETTINGS[key]
               /\ \A key \in KeysIn(disk.text) \ DOMAIN DEFAULT_SETTINGS :
                     /\ key \in DOMAIN _settings'
                     /\ _settings'[key] = ValueIn(disk.text, key)
       /\ (op = "load" /\ ret = "loaded" /\ op' = "save" /\ ret' = "True")
            => \A i \in 1..Len(disk.text) :
                   disk.text[i].k \notin DOMAIN DEFAULT_SETTINGS
                       => \E j \in 1..Len(disk'.text) : disk'.text[j] = disk.text[i]]_vars

\* a file that had the language, the unknown key and no interval was loaded
\* and saved: the unknown key is in memory and in the file written
C12_Witness ==
    /\ op = "save"
    /\ ret = "True"
    /\ ExtraKeys[1] \in DOMAIN _settings
    /\ _settings.language = HandSettings.language
    /\ _settings.interval = DEFAULT_SETTINGS.interval
    /\ \E i \in 1..Len(disk.text) :
          disk.text[i] = [k |-> ExtraKeys[1], t |-> "string", v |-> <<"dark">>]

\* C13: a load that finds no settings file leaves the baseline defaults in
\* memory and returns them without raising; the file then holds exactly
\* that record, or still does not exist when the write failed.
C13_MissingFileCreatesDefaults ==
    [][(op' = "load" /\ ~disk.exists)
          => /\ ret' = "created"
             /\ _settings' = DEFAULT_SETTINGS
             /\ IF fs'.written
                THEN /\ disk'.exists
                     /\ KeysIn(disk'.text) = DOMAIN DEFAULT_SETTINGS
                     /\ \A key \in DOMAIN DEFAULT_SETTINGS :
                           ValueIn(disk'.text, key) = DEFAULT_SETTINGS[key]
                ELSE disk' = NoFile]_vars

\* the file was removed and load was called: the load has
\* put the defaults in memory and on disk
C13_Witness ==
    /\ op = "load"
    /\ ret = "created"
    /\ fs.written
    /\ disk = File(json_dump(DEFAULT_SETTINGS))
    /\ _settings = DEFAULT_SETTINGS

\* the same load when the write fails: the defaults in memory, no file
MissingFileUnwritable ==
    /\ op = "load"
    /\ ret = "created"
    /\ ~fs.written
    /\ ~disk.exists

\* a == b of Python for two values of the settings
SameValue(a, b) == type_name(a) = type_name(b) /\ a = b

\* the step gives one known key one of its values in memory and leaves the
\* other keys of the record alone
OneKeySet ==
    \E key \in DOMAIN DEFAULT_SETTINGS :
        /\ DOMAIN _settings' = DOMAIN _settings \cup {key}
        /\ type_name(_settings'[key]) = type_name(DEFAULT_SETTINGS[key])
        /\ _settings'[key] \in SettingValues(key)
        /\ \A other \in DOMAIN _settings \ {key} :
              SameValue(_settings'[other], _settings[other])

\* C14: set with auto_save changes one value in memory and, the write
\* accepted, leaves the file equal to the whole record in memory; set without
\* auto_save changes the value in memory only and leaves the file as it was;
\* a save then writes the whole record at once, so the file goes from the
\* record before the batch to the record after it and never holds a part.
C14_SetPersistsOrDefers ==
    [][/\ op' = "set"
            => /\ OneKeySet
               /\ disk' = IF fs'.written THEN File(json_dump(_settings')) ELSE disk
       /\ op' = "set_deferred"
            => /\ OneKeySet
               /\ disk' = disk
       /\ op' = "save"
            => /\ _settings' = _settings
               /\ disk' = IF fs'.written THEN File(json_dump(_settings)) ELSE disk]_vars

\* a batch is pending: after two sets without auto_save the language and the
\* interval in memory differ from those of the file, which is still the
\* complete record it was
C14_Witness ==
    /\ op = "set_deferred"
    /\ calls = 2
    /\ disk.exists
    /\ Decodable(disk.text)
    /\ KeysIn(disk.text) = DOMAIN DEFAULT_SETTINGS
    /\ ValueIn(disk.text, "muted") = _settings.muted
    /\ ValueIn(disk.text, "language") # _settings.language
    /\ ValueIn(disk.text, "interval") # _settings.interval

\* C15: when the file system refuses the write, save returns False and raises
\* nothing, the record in memory is the caller's (a set keeps its new
\* value) and the file is the old one; a tick decides by the muted flag, the
\* interval and the language of the record in memory.
C15_FailedWriteKeepsMemory ==
    [][/\ (op' = "save" /\ ~fs'.written)
            => (ret' = "False" /\ _settings' = _settings /\ disk' = disk)
       /\ (op' = "set" /\ ~fs'.written)
            => (ret' = "None" /\ OneKeySet /\ disk' = disk)
       /\ (op' = "check_and_announce" /\ call'.made)
            => /\ ~_settings.muted
               /\ ~ModRaises(_settings.interval)
               /\ IntervalMatches(minute, _settings.interval)
               /\ call'.language = _settings.language]_vars

\* the interval was set to 15 while the file could not be written: at
\* minute 15 the tick announces, the file still saying 60
C15_Witness ==
    /\ op = "check_and_announce"
    /\ call.made
    /\ minute = 15
    /\ ~fs.written
    /\ _settings.interval = 15
    /\ disk.exists
    /\ Decodable(disk.text)
    /\ IsDict(disk.text)
    /\ "interval" \in KeysIn(disk.text)
    /\ SameValue(ValueIn(disk.text, "interval"), 60)

(***************************************************************************)
(* Properties of the stop of the application.                              *)
(***************************************************************************)
\* the first stop: the 60-second source is removed, the main loop ends, so
\* that no check_and_announce runs afterwards, and the player is stopped
\* and released
QuitReleases ==
    [][/\ (op' = "_quit" /\ loop.running)
            => /\ ret' = "None"
               /\ ~loop'.scheduler
               /\ ~loop'.running
               /\ player_state' = "RELEASED"
       /\ op' = "check_and_announce"
            => (loop.running /\ (loop.scheduler \/ loop.initial))]_vars

\* C16: the stop of the application removes the tick source, so that no
\* check_and_announce runs afterwards, stops the playback and releases the
\* player; the stop, the cleanup of the player or its stop made once more
\* change nothing and raise nothing.
C16_StopIsIdempotent ==
    [][/\ (op' = "_quit" /\ loop.running)
            => /\ ret' = "None"
               /\ ~loop'.scheduler
               /\ ~loop'.running
               /\ player_state' = "RELEASED"
       /\ op' = "check_and_announce"
            => (loop.running /\ (loop.scheduler \/ loop.initial))
       /\ (op' \in {"_quit", "cleanup", "stop"} /\ ~loop.running)
            => /\ ret' = "None"
               /\ player_state' = player_state
               /\ loop' = loop]_vars

PlayFailed(c) == c.made /\ ~c.started

\* C18: a tick whose call of the player fails returns True and leaves the
\* minute recorded; the tick that follows it in the same (hour, minute), and
\* any tick that finds the current (hour, minute) recorded, calls no player
\* and returns True; a tick that is not muted, at a minute that matches the
\* interval and is not recorded, resolves the clip again.
C18_FailedPlayIsNotRetried ==
    [][/\ (op' = "check_and_announce" /\ PlayFailed(call'))
            => /\ ret' = "True"
               /\ _already_played(hour, minute)'
       /\ (op = "check_and_announce" /\ PlayFailed(call) /\ op' = "check_and_announce")
            => (~call'.made /\ ret' = "True" /\ UNCHANGED debounce)
       /\ (op' = "check_and_announce" /\ _already_played(hour, minute))
            => (~call'.made /\ ret' = "True")
       /\ (op' = "check_and_announce" /\ ~_settings.muted
              /\ IntervalMatches(minute, _settings.interval)
              /\ ~_already_played(hour, minute))
            => probe'.ran]_vars

\* a tick has called the player, the call has failed, and the tick has
\* returned True with the minute recorded
C18_Witness ==
    /\ op = "check_and_announce"
    /\ PlayFailed(call)
    /\ ret = "True"
    /\ _already_played(hour, minute)
    /\ <<pre_hour, pre_minute>> # <<hour, minute>>

(***************************************************************************)
(* Properties of the engine under intervals other than 15, 30 and 60.      *)
(***************************************************************************)
\* the text is a JSON object
Parses(file) == file.exists /\ Decodable(file.text) /\ IsDict(file.text)

\* C19: a load of a file that parses is accepted without raising, whatever
\* interval the file holds, and every check_and_announce returns True.
C19_UnsupportedIntervalNeverRaises ==
    [][/\ (op' = "load" /\ fs'.readable /\ Parses(disk)) => ret' = "loaded"
       /\ op' = "check_and_announce" => ret' = "True"]_vars

\* what the code does keep: such a load is accepted, and a tick raises only
\* when it is not muted and the interval in memory is 0 or not a number; a
\* negative interval raises nothing
TickRaisesOnlyOnZeroOrText ==
    [][/\ (op' = "load" /\ fs'.readable /\ Parses(disk)) => ret' = "loaded"
       /\ (op' = "check_and_announce" /\ ret' # "True")
            => /\ ~_settings.muted
               /\ ModRaises(_settings.interval)
               /\ ret' = ModError(_settings.interval)
               /\ UNCHANGED <<debounce, player_state>>]_vars

\* the minutes of the hour that are multiples of 7
MultiplesOf7 == {0, 7, 14, 21, 28, 35, 42, 49, 56}

\* C20: under any positive interval check_and_announce returns True, and
\* the first tick of an engine that is not muted resolves the clip exactly
\* when minute mod interval = 0, calling the player when a file of the
\* clip exists: at minute 0 only under an interval above 59, at
\* 0, 7, ..., 56 under the interval 7.
C20_AnyPositiveInterval ==
    [][op' = "check_and_announce"
          => /\ ret' = "True"
             /\ (op = "init" /\ ~_settings.muted)
                  => /\ probe'.ran <=> (minute % _settings.interval = 0)
                     /\ call'.made <=> /\ minute % _settings.interval = 0
                                        /\ FoundSuffix(probe'.ogg, probe'.mp3) # "none"
                     /\ _settings.interval > 59 => (probe'.ran <=> minute = 0)
                     /\ _settings.interval = 7
                          => (probe'.ran <=> minute \in MultiplesOf7)
             /\ _settings.muted => ~probe'.ran]_vars

\* under the interval 7 the first tick at minute 56 has called the player
C20_Witness ==
    /\ op = "check_and_announce"
    /\ ret = "True"
    /\ _settings.interval = 7
    /\ minute = 56
    /\ call.made
    /\ call.mm = <<5, 6>>

(***************************************************************************)
(* Properties of the player and of the paths it is given.                  *)
(***************************************************************************)
\* C21: at most one clip is heard at any time: the playbin plays exactly
\* when one clip is heard, a call of AudioPlayer.play that starts a clip
\* leaves that clip alone heard, and after end-of-stream or an error of the
\* backend the player is stopped and nothing is heard.
C21_OneClipInFlight ==
    /\ sounding <= 1
    /\ (player_state = "PLAYING") <=> (sounding = 1)
    /\ call.started => (player_state = "PLAYING" /\ sounding = 1)
    /\ op \in {"_on_eos", "_on_error"} => (player_state = "NULL" /\ sounding = 0)

\* force_announce has started a clip in a minute in which a tick had called
\* the player already: one clip is heard
C21_Witness ==
    /\ op = "force_announce"
    /\ call.started
    /\ run_plays = 1
    /\ _already_played(hour, minute)
    /\ sounding = 1

\* the minutes for which the asset scripts generate a clip
QuarterMinutes == {0, 15, 30, 45}

\* the path has the shape audio/<language>/<HH>_<MM>.<ext>: the language of
\* the settings, two digits of an hour in 01..12, two digits, ogg or mp3
PathShape(c) ==
    /\ c.language = _settings.language
    /\ Len(c.hh) = 2
    /\ TwoDigits(c.hh) \in 1..12
    /\ Len(c.mm) = 2
    /\ c.ext \in {"ogg", "mp3"}

\* C22, as stated: every path handed to the player has that shape with MM
\* one of 00, 15, 30, 45.
C22_PathOnQuarterMinutes ==
    call.made => (PathShape(call) /\ TwoDigits(call.mm) \in QuarterMinutes)

\* C22, amended: every path handed to the player has that shape with HH the
\* 12-hour form of the current hour and MM the current minute, whatever it
\* is; MM is one of 00, 15, 30, 45 when check_and_announce hands it over
\* under an interval of 15, 30 or 60.
C22_PathOfCurrentMinute ==
    call.made
        => /\ PathShape(call)
           /\ TwoDigits(call.hh) = hour_12(hour)
           /\ TwoDigits(call.mm) = minute
           /\ (op = "check_and_announce" /\ _settings.interval \in INTERVALS)
                => TwoDigits(call.mm) \in QuarterMinutes

\* force_announce at minute 59 has handed over the path of <HH>_59
C22_Witness ==
    /\ op = "force_announce"
    /\ call.made
    /\ minute = 59
    /\ call.mm = <<5, 9>>

(***************************************************************************)
(* Properties of the engine under the changes of the settings.             *)
(***************************************************************************)
\* the current minute is one that check_and_announce would announce
Eligible ==
    /\ ~_settings.muted
    /\ IntervalMatches(minute, _settings.interval)
    /\ ~_already_played(hour, minute)

\* C23: the Mute item of the tray flips the muted flag and leaves the
\* debounce state and the timer sources as they are; a tick made while muted
\* returns True, keeps its source attached and leaves the debounce state as
\* it is; a tick made when not muted, at a minute that matches the interval
\* and is not recorded, resolves the clip and plays it when a file exists.
C23_UnmuteNeedsNoRestart ==
    [][/\ op' = "_on_mute_toggled"
            => /\ _settings'.muted = ~_settings.muted
               /\ UNCHANGED <<debounce, loop>>
       /\ (op' = "check_and_announce" /\ _settings.muted)
            => /\ ret' = "True"
               /\ ~probe'.ran
               /\ loop'.scheduler = loop.scheduler
               /\ UNCHANGED debounce
       /\ (op' = "check_and_announce" /\ Eligible)
            => /\ probe'.ran
               /\ call'.made <=> (probe'.ogg \/ probe'.mp3)]_vars

\* the application started muted, was un-muted from the tray, and a tick
\* made after the one-shot source was spent has called the player, the
\* 60-second source still attached
C23_Witness ==
    /\ op = "check_and_announce"
    /\ call.made
    /\ loop.scheduler
    /\ ~loop.initial
    /\ ~_settings.muted

\* the handlers through which the tray and the dialog call ConfigManager.set
SettingOps == {"set", "_on_mute_toggled", "_on_save_clicked"}

\* C24: the tick that follows a change of the settings decides by the
\* muted flag and the interval that the change left in memory, and hands over
\* a clip of the language that it left there; so does every other tick.
C24_SettingsReadOnEveryTick ==
    [][/\ (op \in SettingOps /\ op' = "check_and_announce")
            => /\ probe'.ran <=> Eligible
               /\ call'.made => call'.language = _settings.language
               /\ _settings.muted => (~call'.made /\ UNCHANGED debounce)
       /\ op' = "check_and_announce"
            => /\ probe'.ran <=> Eligible
               /\ call'.made => call'.language = _settings.language]_vars

\* the language and the interval in memory are no longer those of the file
\* (the dialog was saved while the file could not be written), and a tick at
\* minute 30 has handed over a clip under the new language and interval
C24_Witness ==
    /\ op = "check_and_announce"
    /\ call.made
    /\ minute = 30
    /\ _settings.interval = 30
    /\ call.language = "bn"
    /\ disk.exists
    /\ Decodable(disk.text)
    /\ ValueIn(disk.text, "interval") = 60
    /\ ValueIn(disk.text, "language") = "en"

\* C25: force_announce leaves the debounce state and the settings as they
\* are and looks for the clip whatever the muted flag says, playing the
\* file found; the tick that follows it in a minute that is eligible looks
\* for the clip and plays the file found as well.
C25_ForceAnnounceLeavesState ==
    [][/\ op' = "force_announce"
            => /\ UNCHANGED <<debounce, store>>
               /\ probe'.ran
               /\ (probe'.ogg \/ probe'.mp3) => call'.made
       /\ (op = "force_announce" /\ op' = "check_and_announce" /\ Eligible)
            => /\ probe'.ran
               /\ (probe'.ogg \/ probe'.mp3) => call'.made]_vars

\* force_announce played while the clock was muted, the tray then unmuted
\* it, and a tick played in the same wall-clock minute: two clips for it
C25_Witness ==
    /\ Len(ticks) = 2
    /\ ticks[1].op = "force_announce"
    /\ ticks[1].muted
    /\ ticks[1].made
    /\ ticks[2].op = "check_and_announce"
    /\ ticks[2].made
    /\ ticks[2].at = ticks[1].at
    /\ ticks[2].fresh

\* C26: every save of the dialog leaves the debounce state at (-1, -1),
\* also one that changes no setting, so the unmuted tick that follows it in
\* a minute that matches the interval looks for the clip and plays the file
\* found, announced already or not; the mute item of the tray leaves the
\* debounce state as it is.
C26_SaveResetsDebounce ==
    [][/\ op' = "_on_save_clicked"
            => (_last_played_hour' = -1 /\ _last_played_minute' = -1)
       /\ (op = "_on_save_clicked" /\ op' = "check_and_announce"
            /\ ~_settings.muted /\ IntervalMatches(minute, _settings.interval))
            => /\ probe'.ran
               /\ (probe'.ogg \/ probe'.mp3) => call'.made
       /\ op' = "_on_mute_toggled" => UNCHANGED debounce]_vars

\* two ticks of one wall-clock minute played: the first set the debounce
\* state, the dialog was saved, and the second found the state cleared; the
\* settings are those the application started with
C26_Witness ==
    /\ Len(ticks) = 2
    /\ op = "check_and_announce"
    /\ ticks[1].op = "check_and_announce"
    /\ ticks[1].made
    /\ ticks[2].op = "check_and_announce"
    /\ ticks[2].made
    /\ ticks[2].at = ticks[1].at
    /\ ticks[2].fresh
    /\ _settings = DEFAULT_SETTINGS

\* no call of the log handed a clip to the player in the wall-clock minute
\* that the clock shows
NoClipThisMinute == \A i \in 1..Len(ticks) : ticks[i].made => ticks[i].at # elapsed

\* C27: an unmuted tick at a minute that matches the interval, in a
\* wall-clock minute in which no clip was handed to the player yet, looks
\* for the clip and plays the file found, also when the debounce state is
\* the same (hour, minute) of the day before.
C27_EligibleMinuteNeverSuppressed ==
    [][(/\ op' = "check_and_announce"
        /\ ~_settings.muted
        /\ IntervalMatches(minute, _settings.interval)
        /\ NoClipThisMinute)
       => /\ probe'.ran
          /\ (probe'.ogg \/ probe'.mp3) => call'.made]_vars

\* the clips that the ticks of the current wall-clock minute handed over
PlaysThisMinute ==
    Cardinality({i \in 1..Len(ticks) :
                    ticks[i].op = "check_and_announce" /\ ticks[i].made})

\* the dialog was saved in the current wall-clock minute
SavedThisMinute == \E i \in 1..Len(ticks) : ticks[i].op = "_on_save_clicked"

\* every tick of the current wall-clock minute found the minute matching
\* the interval, and it matches the interval now
MatchedAllMinute ==
    /\ IntervalMatches(minute, _settings.interval)
    /\ \A i \in 1..Len(ticks) :
          ticks[i].op = "check_and_announce" => ticks[i].match

\* C28 as stated: the clock staying unmuted, the clips being installed and
\* the source firing in every minute, a wall-clock minute that matches the
\* interval ends with exactly one clip handed over by its ticks.
C28_EligibleMinuteAnnouncedOnce ==
    [][(op' = "elapse" /\ MatchedAllMinute) => PlaysThisMinute = 1]_vars

\* C28, amended: a minute that matches the interval and has seen neither a
\* tick nor a save of the dialog leads to a tick handing over its clip or to
\* a save of the dialog; and a minute that matches the interval and in which
\* the dialog was not saved ends with exactly one clip handed over by its
\* ticks.
C28_UnsavedEligibleMinuteAnnouncedOnce ==
    /\ [][(op' = "elapse" /\ IntervalMatches(minute, _settings.interval)
           /\ ~SavedThisMinute)
          => PlaysThisMinute = 1]_vars
    /\ (IntervalMatches(minute, _settings.interval) /\ ticks = <<>>)
          ~> (PlaysThisMinute = 1 \/ SavedThisMinute)

\* midnight was reached in the run, its first tick handed over the clip
\* 12_00 and its second tick handed over nothing
C28_Witness ==
    /\ elapsed = 1
    /\ hour = 0
    /\ minute = 0
    /\ Len(ticks) = 2
    /\ ticks[1].op = "check_and_announce"
    /\ ticks[1].made
    /\ ticks[2].op = "check_and_announce"
    /\ ~ticks[2].made
    /\ op = "check_and_announce"

\* C29: the one-shot source runs check_and_announce when it fires, is
\* removed by that and never attached again; the 60-second source is
\* removed by _quit alone; and in the minute of the launch, unmuted and
\* matching the interval, the first of the two callbacks looks for the clip
\* and plays the file found, the other one plays nothing, whichever comes
\* first: at most one clip for the minute.
C29_StartupCheckSharesDebounce ==
    /\ [](run_plays <= 1)
    /\ [][/\ ~loop.initial => ~loop'.initial
          /\ (loop.initial /\ ~loop'.initial)
               => (op' = "check_and_announce" /\ loop'.scheduler = loop.scheduler)
          /\ (loop.scheduler /\ ~loop'.scheduler) => op' = "_quit"
          /\ (op' = "check_and_announce" /\ elapsed = 0 /\ ~_settings.muted
              /\ IntervalMatches(minute, _settings.interval))
               => /\ _last_played_hour' = hour
                  /\ _last_played_minute' = minute
                  /\ IF _already_played(hour, minute)
                     THEN ~call'.made /\ run_plays' = run_plays
                     ELSE /\ probe'.ran
                          /\ (probe'.ogg \/ probe'.mp3)
                               => (call'.made /\ run_plays' = 1)]_vars

\* in the minute of the launch the one-shot source is gone, the 60-second
\* source is attached, one clip was handed over and the later of the two
\* callbacks found the minute announced and handed over nothing
C29_Witness ==
    /\ elapsed = 0
    /\ op = "check_and_announce"
    /\ ~loop.initial
    /\ loop.scheduler
    /\ loop.running
    /\ pre_hour = hour
    /\ pre_minute = minute
    /\ run_plays = 1
    /\ ~call.made
====
